---- MODULE Spec2Model ----
(***************************************************************************)
(* Model of shapely/geometry/geo.py: the geometry factories based on the   *)
(* geo interface (_is_coordinates_empty, _empty_shape_for_no_coordinates,  *)
(* box, shape, mapping).                                                   *)
(*                                                                         *)
(* Python values are tagged records.  Strings are sequences of one-letter  *)
(* strings so that str.lower() is computed letter by letter.  A dict is a  *)
(* function whose domain is the set of keys it holds.  A geometry object   *)
(* is a record with a "kind" field; its coordinates are stored as floats.  *)
(***************************************************************************)
EXTENDS Integers, Sequences, FiniteSets, TLC

VARIABLES
    _has_numpy,   \* outcome of the optional "import numpy" at module load
    op,           \* the function the caller invoked last
    arg,          \* the argument of a call of a helper (kind name, tree, bounds)
    context,      \* the caller's object handed to shape: a dict or a geometry
    source,       \* the geometry mapping() was applied to, when context came from it
    out           \* what the last call returned or raised

vars == <<_has_numpy, op, arg, context, source, out>>

----------------------------------------------------------------------------
(* Bounds of the model *)

MaxCoord == 1        \* coordinates range over 0..MaxCoord
MaxUpper == 1        \* letters of a kind name written in upper case
MaxParts == 2        \* parts of a multi-part geometry and entries of 'geometries'
MaxHoles == 1        \* interior rings of a polygon

----------------------------------------------------------------------------
(* Python values *)

None == [t |-> "None"]
PyInt(n) == [t |-> "num", v |-> n, float |-> FALSE]
PyFloat(n) == [t |-> "num", v |-> n, float |-> TRUE]
Str(s) == [t |-> "str", chars |-> s]
List(s) == [t |-> "seq", c |-> "list", items |-> s]
Tuple(s) == [t |-> "seq", c |-> "tuple", items |-> s]
NdArray(s) == [t |-> "seq", c |-> "ndarray", items |-> s]

IsNone(x) == x.t = "None"
IsNum(x) == x.t = "num"

\* isinstance(x, (list, tuple))
IsListOrTuple(x) == x.t = "seq" /\ x.c \in {"list", "tuple"}

\* isinstance(x, np.ndarray)
IsNdArray(x) == x.t = "seq" /\ x.c = "ndarray"

SeqsUpTo(S, n) == UNION {[1..k -> S] : k \in 0..n}

----------------------------------------------------------------------------
(* Strings and str.lower() *)

UpperToLower ==
    [A |-> "a", B |-> "b", C |-> "c", D |-> "d", E |-> "e", F |-> "f",
     G |-> "g", H |-> "h", I |-> "i", J |-> "j", K |-> "k", L |-> "l",
     M |-> "m", N |-> "n", O |-> "o", P |-> "p", Q |-> "q", R |-> "r",
     S |-> "s", T |-> "t", U |-> "u", V |-> "v", W |-> "w", X |-> "x",
     Y |-> "y", Z |-> "z"]

LowerChar(ch) == IF ch \in DOMAIN UpperToLower THEN UpperToLower[ch] ELSE ch

UpperChar(ch) ==
    IF \E u \in DOMAIN UpperToLower : UpperToLower[u] = ch
    THEN CHOOSE u \in DOMAIN UpperToLower : UpperToLower[u] = ch
    ELSE ch

\* the string as it is, not lower-cased
NotLowered(s) == s

\* str.lower()
Lower(s) == [i \in DOMAIN s |-> LowerChar(s[i])]

Upper(s) == [i \in DOMAIN s |-> UpperChar(s[i])]

point == <<"p", "o", "i", "n", "t">>
linestring == <<"l", "i", "n", "e", "s", "t", "r", "i", "n", "g">>
polygon == <<"p", "o", "l", "y", "g", "o", "n">>
multipoint == <<"m", "u", "l", "t", "i">> \o point
multilinestring == <<"m", "u", "l", "t", "i">> \o linestring
multipolygon == <<"m", "u", "l", "t", "i">> \o polygon
geometrycollection ==
    <<"g", "e", "o", "m", "e", "t", "r", "y">>
        \o <<"c", "o", "l", "l", "e", "c", "t", "i", "o", "n">>

\* the seven kinds shape dispatches on
KindNames ==
    {point, linestring, polygon, multipoint, multilinestring, multipolygon,
     geometrycollection}

\* "Unknown geometry type: %s" % geom_type
UnknownPrefix ==
    <<"U", "n", "k", "n", "o", "w", "n", " ">>
        \o <<"g", "e", "o", "m", "e", "t", "r", "y", " ">>
        \o <<"t", "y", "p", "e", ":", " ">>

\* the message without the offending name
UnknownMsgWithoutName(geom_type) == UnknownPrefix

UnknownMsg(geom_type) == UnknownPrefix \o geom_type

----------------------------------------------------------------------------
(* Outcomes of a call *)

Return(v) == [st |-> "return", val |-> v]
Raise(e, m) == [st |-> "raise", exc |-> e, msg |-> m]

Returned(o) == o.st = "return"
Raised(o) == o.st = "raise"
RaisedKind(o, e) == o.st = "raise" /\ o.exc = e

\* the outcome o, reached through branch b of shape
Via(o, b) ==
    IF o.st = "return"
    THEN [st |-> "return", val |-> o.val, via |-> b]
    ELSE [st |-> "raise", exc |-> o.exc, msg |-> o.msg, via |-> b]

\* the outcome alone, without the branch it was reached through
Plain(o) ==
    IF o.st = "return" THEN Return(o.val) ELSE Raise(o.exc, o.msg)

----------------------------------------------------------------------------
(* _is_coordinates_empty *)

\* any() in place of all()
RECURSIVE _is_coordinates_empty_any(_)
_is_coordinates_empty_any(coordinates) ==
    IF IsNone(coordinates)
    THEN TRUE
    ELSE LET is_numpy_array == _has_numpy /\ IsNdArray(coordinates)
         IN  IF IsListOrTuple(coordinates) \/ is_numpy_array
             THEN IF Len(coordinates.items) = 0
                  THEN TRUE
                  ELSE \E i \in DOMAIN coordinates.items :
                           _is_coordinates_empty_any(coordinates.items[i])
             ELSE FALSE

RECURSIVE _is_coordinates_empty(_)
_is_coordinates_empty(coordinates) ==
    IF IsNone(coordinates)
    THEN TRUE
    ELSE LET is_numpy_array == _has_numpy /\ IsNdArray(coordinates)
         IN  IF IsListOrTuple(coordinates) \/ is_numpy_array
             THEN IF Len(coordinates.items) = 0
                  THEN TRUE
                  ELSE \A i \in DOMAIN coordinates.items :
                           _is_coordinates_empty(coordinates.items[i])
             ELSE FALSE

----------------------------------------------------------------------------
(* Geometry objects and their constructors (shapely.geometry.point,         *)
(* .linestring, .polygon, .multipoint, .multilinestring, .multipolygon,     *)
(* .collection).  A constructor copies the coordinates it is given into     *)
(* the object as floats; it raises when the data is not of its form.        *)

PointName == <<"P">> \o Tail(point)
LineStringName == <<"L", "i", "n", "e", "S">> \o SubSeq(linestring, 6, 10)
PolygonName == <<"P">> \o Tail(polygon)
MultiPointName == <<"M", "u", "l", "t", "i">> \o PointName
MultiLineStringName == <<"M", "u", "l", "t", "i">> \o LineStringName
MultiPolygonName == <<"M", "u", "l", "t", "i">> \o PolygonName
GeometryCollectionName ==
    <<"G">> \o SubSeq(geometrycollection, 2, 8)
        \o <<"C">> \o SubSeq(geometrycollection, 10, 18)

\* a geometry object: coords and interiors hold floats owned by the object;
\* shared tells that the object reads its coordinates from the caller's storage
Geom(kind, coords, interiors, geoms) ==
    [kind |-> kind, coords |-> coords, interiors |-> interiors,
     geoms |-> geoms, shared |-> FALSE]

EmptyGeom(kind) == Geom(kind, <<>>, <<>>, <<>>)

ConstructorError == Raise("ConstructorError", <<>>)

\* a coordinate tuple: a sequence of 2 or 3 numbers
IsCoordTuple(c) ==
    /\ c.t = "seq"
    /\ Len(c.items) \in {2, 3}
    /\ \A i \in DOMAIN c.items : IsNum(c.items[i])

\* float(x) for each ordinate
CoordOf(c) == [i \in DOMAIN c.items |-> c.items[i].v]

\* a sequence of at least min coordinate tuples of one dimension
IsCoordSeq(c, min) ==
    /\ c.t = "seq"
    /\ Len(c.items) >= min
    /\ \A i \in DOMAIN c.items : IsCoordTuple(c.items[i])
    /\ \A i, j \in DOMAIN c.items : Len(c.items[i].items) = Len(c.items[j].items)

CoordsOf(c) == [i \in DOMAIN c.items |-> CoordOf(c.items[i])]

\* a ring is stored closed
CloseRing(r) == IF r[1] = r[Len(r)] THEN r ELSE Append(r, r[1])

Point(coordinates) ==
    IF IsCoordTuple(coordinates)
    THEN Return(Geom(PointName, CoordOf(coordinates), <<>>, <<>>))
    ELSE ConstructorError

LineString(coordinates) ==
    IF IsCoordSeq(coordinates, 2)
    THEN Return(Geom(LineStringName, CoordsOf(coordinates), <<>>, <<>>))
    ELSE ConstructorError

\* Polygon(shell=None, holes=None)
Polygon(shell, holes) ==
    LET rings == IF IsNone(holes) THEN <<>> ELSE holes.items
    IN  IF /\ IsCoordSeq(shell, 3)
           /\ holes.t \in {"None", "seq"}
           /\ \A i \in DOMAIN rings : IsCoordSeq(rings[i], 3)
        THEN Return(Geom(PolygonName, CloseRing(CoordsOf(shell)),
                         [i \in DOMAIN rings |-> CloseRing(CoordsOf(rings[i]))],
                         <<>>))
        ELSE ConstructorError

\* the items of a sequence; a value that is no sequence has none
Items(c) == IF c.t = "seq" THEN c.items ELSE <<>>

\* a multi-part geometry of the parts built, parts being the outcomes of the
\* part constructor in order
MultiPart(kind, parts) ==
    IF Len(parts) >= 1 /\ \A i \in DOMAIN parts : Returned(parts[i])
    THEN Return(Geom(kind, <<>>, <<>>, [i \in DOMAIN parts |-> parts[i].val]))
    ELSE ConstructorError

MultiPoint(coordinates) ==
    MultiPart(MultiPointName,
              [i \in DOMAIN Items(coordinates) |-> Point(Items(coordinates)[i])])

MultiLineString(coordinates) ==
    MultiPart(MultiLineStringName,
              [i \in DOMAIN Items(coordinates) |->
                  LineString(Items(coordinates)[i])])

\* one polygon of a MultiPolygon: GeoJSON nests (exterior, interior...), the
\* default convention pairs (shell, holes)
PolygonPart(p, context_type) ==
    IF p.t # "seq" \/ Len(p.items) = 0
    THEN ConstructorError
    ELSE IF context_type = "geojson"
    THEN Polygon(p.items[1], [p EXCEPT !.items = Tail(p.items)])
    ELSE IF Len(p.items) = 2
    THEN Polygon(p.items[1], p.items[2])
    ELSE ConstructorError

MultiPolygon(coordinates, context_type) ==
    MultiPart(MultiPolygonName,
              [i \in DOMAIN Items(coordinates) |->
                  PolygonPart(Items(coordinates)[i], context_type)])

GeometryCollection(geoms) ==
    Return(Geom(GeometryCollectionName, <<>>, <<>>, geoms))

\* the coordinate sequence of the object is empty
IsEmptyGeom(g) == g.coords = <<>> /\ g.interiors = <<>> /\ g.geoms = <<>>

----------------------------------------------------------------------------
(* _empty_shape_for_no_coordinates *)

_empty_shape_for_no_coordinates(geom_type) ==
    IF geom_type = point THEN Return(EmptyGeom(PointName))
    ELSE IF geom_type = multipoint THEN Return(EmptyGeom(MultiPointName))
    ELSE IF geom_type = linestring THEN Return(EmptyGeom(LineStringName))
    ELSE IF geom_type = multilinestring
    THEN Return(EmptyGeom(MultiLineStringName))
    ELSE IF geom_type = polygon THEN Return(EmptyGeom(PolygonName))
    ELSE IF geom_type = multipolygon THEN Return(EmptyGeom(MultiPolygonName))
    ELSE Raise("ValueError", UnknownMsg(geom_type))

----------------------------------------------------------------------------
(* box *)

Reverse(s) == [i \in DOMAIN s |-> s[Len(s) + 1 - i]]

\* the order reversed when ccw, in place of when not ccw
box_coords_flipped(minx, miny, maxx, maxy, ccw) ==
    LET coords == <<<<maxx, miny>>, <<maxx, maxy>>, <<minx, maxy>>, <<minx, miny>>>>
    IN  IF ccw THEN Reverse(coords) ELSE coords

\* the coords list box hands to the Polygon constructor
box_coords(minx, miny, maxx, maxy, ccw) ==
    LET coords == <<<<maxx, miny>>, <<maxx, maxy>>, <<minx, maxy>>, <<minx, miny>>>>
    IN  IF ~ccw THEN Reverse(coords) ELSE coords

ListOfCoords(cs) ==
    List([i \in DOMAIN cs |-> Tuple([k \in DOMAIN cs[i] |-> PyInt(cs[i][k])])])

box(minx, miny, maxx, maxy, ccw) ==
    Polygon(ListOfCoords(box_coords(minx, miny, maxx, maxy, ccw)), None)

----------------------------------------------------------------------------
(* __geo_interface__ of the geometry objects, and mapping *)

TupleOfCoord(p) == Tuple([i \in DOMAIN p |-> PyFloat(p[i])])
TupleOfCoords(cs) == Tuple([i \in DOMAIN cs |-> TupleOfCoord(cs[i])])

\* the rings of a polygon: the exterior, then the interiors
PolygonCoordinates(g) ==
    IF IsEmptyGeom(g)
    THEN Tuple(<<>>)
    ELSE Tuple(<<TupleOfCoords(g.coords)>>
                   \o [i \in DOMAIN g.interiors |-> TupleOfCoords(g.interiors[i])])

HasGeoInterface(x) == "kind" \in DOMAIN x

RECURSIVE GeoInterface(_)
GeoInterface(g) ==
    IF g.kind = PointName
    THEN [type |-> Str(PointName), coordinates |-> TupleOfCoord(g.coords)]
    ELSE IF g.kind = LineStringName
    THEN [type |-> Str(LineStringName), coordinates |-> TupleOfCoords(g.coords)]
    ELSE IF g.kind = PolygonName
    THEN [type |-> Str(PolygonName), coordinates |-> PolygonCoordinates(g)]
    ELSE IF g.kind = MultiPointName
    THEN [type |-> Str(MultiPointName),
          coordinates |-> Tuple([i \in DOMAIN g.geoms |->
                                    TupleOfCoord(g.geoms[i].coords)])]
    ELSE IF g.kind = MultiLineStringName
    THEN [type |-> Str(MultiLineStringName),
          coordinates |-> Tuple([i \in DOMAIN g.geoms |->
                                    TupleOfCoords(g.geoms[i].coords)])]
    ELSE IF g.kind = MultiPolygonName
    THEN [type |-> Str(MultiPolygonName),
          coordinates |-> List([i \in DOMAIN g.geoms |->
                                   PolygonCoordinates(g.geoms[i])])]
    ELSE [type |-> Str(GeometryCollectionName),
          geometries |-> List([i \in DOMAIN g.geoms |->
                                  GeoInterface(g.geoms[i])])]

mapping(ob) == GeoInterface(ob)

----------------------------------------------------------------------------
(* shape *)

\* x[0]
GetItem0(x) ==
    IF x.t = "seq"
    THEN IF Len(x.items) = 0 THEN Raise("IndexError", <<>>) ELSE Return(x.items[1])
    ELSE IF x.t = "str"
    THEN IF Len(x.chars) = 0
         THEN Raise("IndexError", <<>>)
         ELSE Return(Str(<<x.chars[1]>>))
    ELSE Raise("TypeError", <<>>)

\* x[1:]
GetSlice1(x) ==
    IF x.t = "seq"
    THEN Return([x EXCEPT !.items = IF Len(x.items) = 0 THEN <<>> ELSE Tail(x.items)])
    ELSE IF x.t = "str"
    THEN Return(Str(IF Len(x.chars) = 0 THEN <<>> ELSE Tail(x.chars)))
    ELSE Raise("TypeError", <<>>)

\* the interior rings dropped
PolygonOfFirstRing(coordinates) ==
    LET first == GetItem0(coordinates)
    IN  IF Raised(first) THEN first ELSE Polygon(first.val, None)

\* Polygon(ob["coordinates"][0], ob["coordinates"][1:])
PolygonOfCoordinates(coordinates) ==
    LET first == GetItem0(coordinates)
        rest == GetSlice1(coordinates)
    IN  IF Raised(first) THEN first
        ELSE IF Raised(rest) THEN rest
        ELSE Polygon(first.val, rest.val)

\* the constructor call of the branch of geom_type, on ob["coordinates"]
ConstructorFor(geom_type, coordinates) ==
    IF geom_type = point THEN Point(coordinates)
    ELSE IF geom_type = linestring THEN LineString(coordinates)
    ELSE IF geom_type = polygon THEN PolygonOfCoordinates(coordinates)
    ELSE IF geom_type = multipoint THEN MultiPoint(coordinates)
    ELSE IF geom_type = multilinestring THEN MultiLineString(coordinates)
    ELSE MultiPolygon(coordinates, "geojson")

KeyError(key) == Raise("KeyError", key)

coordinates_key == <<"c", "o", "o", "r", "d", "i", "n", "a", "t", "e", "s">>

\* an adapter on ob["coordinates"] in place of a copy of it
OfCoordinatesShared(geom_type, ob) ==
    IF "coordinates" \in DOMAIN ob
    THEN LET o == ConstructorFor(geom_type, ob.coordinates)
         IN  IF Returned(o) THEN Return([o.val EXCEPT !.shared = TRUE]) ELSE o
    ELSE KeyError(coordinates_key)

\* Constructor(ob["coordinates"]) of the branch of geom_type
OfCoordinates(geom_type, ob) ==
    IF "coordinates" \in DOMAIN ob
    THEN ConstructorFor(geom_type, ob.coordinates)
    ELSE KeyError(coordinates_key)

\* the branch of shape that handles geom_type
BranchOf(geom_type) ==
    IF geom_type = point THEN "point"
    ELSE IF geom_type = linestring THEN "linestring"
    ELSE IF geom_type = polygon THEN "polygon"
    ELSE IF geom_type = multipoint THEN "multipoint"
    ELSE IF geom_type = multilinestring THEN "multilinestring"
    ELSE IF geom_type = multipolygon THEN "multipolygon"
    ELSE IF geom_type = geometrycollection THEN "geometrycollection"
    ELSE "unknown"

\* the index of the first entry whose outcome is a raise, 0 when there is none
FirstRaise(outs) ==
    IF \E i \in DOMAIN outs : Raised(outs[i])
    THEN CHOOSE i \in DOMAIN outs :
             Raised(outs[i]) /\ \A j \in 1..(i - 1) : ~Raised(outs[j])
    ELSE 0

\* _is_coordinates_empty(ob.get('coordinates')): an absent key taken for empty
HasEmptyCoordinatesOrNone(ob) ==
    _is_coordinates_empty(IF "coordinates" \in DOMAIN ob THEN ob.coordinates ELSE None)

\* 'coordinates' in ob and _is_coordinates_empty(ob['coordinates'])
HasEmptyCoordinates(ob) ==
    "coordinates" \in DOMAIN ob /\ _is_coordinates_empty(ob.coordinates)

\* the entries that raise skipped, the others collected
CollectionOfBuilt(outs) ==
    LET built == SelectSeq(outs, Returned)
    IN  GeometryCollection([i \in DOMAIN built |-> built[i].val])

\* GeometryCollection([shape(g) for g in ...]), outs being the outcomes of
\* shape(g) in order: the first raise ends the comprehension
CollectionOf(outs) ==
    LET bad == FirstRaise(outs)
    IN  IF bad # 0
        THEN outs[bad]
        ELSE GeometryCollection([i \in DOMAIN outs |-> outs[i].val])

RECURSIVE shape(_)
shape(ctx) ==
    LET ob == IF HasGeoInterface(ctx) THEN GeoInterface(ctx) ELSE ctx
        type == IF "type" \in DOMAIN ob THEN ob.type ELSE None
    IN  IF type.t # "str"
        THEN Via(Raise("AttributeError", <<>>), "type")
        ELSE
        LET geom_type == Lower(type.chars)
        IN  IF HasEmptyCoordinates(ob)
            THEN Via(_empty_shape_for_no_coordinates(geom_type), "empty")
            ELSE IF geom_type \in KindNames \ {geometrycollection}
            THEN Via(OfCoordinates(geom_type, ob), BranchOf(geom_type))
            ELSE IF geom_type = geometrycollection
            THEN LET geometries ==
                         IF "geometries" \in DOMAIN ob THEN ob.geometries ELSE List(<<>>)
                 IN  IF geometries.t # "seq"
                     THEN Via(Raise("TypeError", <<>>), "geometrycollection")
                     ELSE Via(CollectionOf([i \in DOMAIN geometries.items |->
                                               shape(geometries.items[i])]),
                              "geometrycollection")
            ELSE Via(Raise("ValueError", UnknownMsg(geom_type)), "unknown")

----------------------------------------------------------------------------
(* What a caller observes of a returned geometry *)

\* the object, or one of its members, reads coordinates from the caller's storage
RECURSIVE Aliases(_)
Aliases(g) == g.shared \/ \E i \in DOMAIN g.geoms : Aliases(g.geoms[i])

\* the value of geometry g while the caller's storage holds ctx
View(g, ctx) == IF Aliases(g) THEN <<g, ctx>> ELSE <<g>>

----------------------------------------------------------------------------
(* Inputs *)

Coords == 0..MaxCoord

\* the sets of at most k positions of sequence s
RECURSIVE PosSets(_, _)
PosSets(s, k) ==
    IF k = 0
    THEN {{}}
    ELSE LET smaller == PosSets(s, k - 1)
         IN  smaller \cup {Q \cup {i} : Q \in smaller, i \in DOMAIN s}

UpperAt(s, Q) == [i \in DOMAIN s |-> IF i \in Q THEN UpperChar(s[i]) ELSE s[i]]

CamelNames ==
    {PointName, LineStringName, PolygonName, MultiPointName,
     MultiLineStringName, MultiPolygonName, GeometryCollectionName}

\* spellings of the seven kind names
Variants ==
    UNION {{UpperAt(k, Q) : Q \in PosSets(k, MaxUpper)} : k \in KindNames}
        \cup {Upper(k) : k \in KindNames}
        \cup CamelNames

circle == <<"c", "i", "r", "c", "l", "e">>

\* strings that are no spelling of a kind name
UnknownNames ==
    {circle, UpperAt(circle, {1}), Upper(circle),
     <<"L", "i", "n", "e", "a", "r", "R", "i", "n", "g">>,
     point \o <<"s">>, <<>>}

Names == Variants \cup UnknownNames

ListOfCoord(p) == List([k \in DOMAIN p |-> PyInt(p[k])])
ListOfCoordSeq(cs) == List([i \in DOMAIN cs |-> ListOfCoord(cs[i])])

RingA == ListOfCoordSeq(<<<<0, 0>>, <<0, 1>>, <<1, 1>>, <<0, 0>>>>)
RingB == ListOfCoordSeq(<<<<1, 1>>, <<1, 0>>, <<0, 0>>>>)

EmptyCoordinates ==
    {None, List(<<>>), Tuple(<<>>), List(<<List(<<>>)>>),
     List(<<List(<<>>), List(<<>>)>>)}

\* coordinates in the form one of the kinds expects
GoodCoordinates(k) ==
    IF k = point THEN ListOfCoord(<<0, 1>>)
    ELSE IF k \in {linestring, multipoint}
    THEN ListOfCoordSeq(<<<<0, 0>>, <<1, 1>>>>)
    ELSE IF k \in {polygon, multilinestring} THEN List(<<RingA, RingB>>)
    ELSE List(<<List(<<RingA>>), List(<<RingA, RingB>>)>>)

CoordinateChoices ==
    EmptyCoordinates
        \cup {GoodCoordinates(k) : k \in KindNames}
        \cup {List(<<RingA>>), List(<<ListOfCoord(<<0, 1>>), List(<<>>)>>),
              PyInt(0), Str(<<>>), Str(<<"a">>)}

\* a dict with the keys given
Dict(type, coordinates) == [type |-> type, coordinates |-> coordinates]
DictNoCoordinates(type) == [type |-> type]
DictNoType(coordinates) == [coordinates |-> coordinates]

FewCoordinates(n) ==
    {None, List(<<>>), List(<<List(<<>>)>>), PyInt(0), GoodCoordinates(Lower(n))}

\* dicts of every spelling, with and without 'coordinates'
TypedDicts ==
    UNION {{Dict(Str(n), c) : c \in FewCoordinates(n)} \cup {DictNoCoordinates(Str(n))}
              : n \in Names}
        \cup {Dict(Str(n), c) : n \in KindNames \cup CamelNames, c \in CoordinateChoices}

\* dicts whose 'type' is absent or no string
UntypedDicts ==
    {DictNoType(c) : c \in {List(<<>>), ListOfCoord(<<0, 1>>)}}
        \cup {Dict(t, c) : t \in {None, PyInt(0)},
                           c \in {List(<<>>), ListOfCoord(<<0, 1>>)}}
        \cup {<<>>}

\* geometry objects, built by the constructors
Pts == {<<x, y>> : x \in Coords, y \in Coords}

Points == {Point(ListOfCoord(p)).val : p \in Pts \cup {<<0, 1, 1>>}}

LineStrings ==
    {LineString(ListOfCoordSeq(<<p, q>>)).val : p \in Pts, q \in Pts}
        \cup {LineString(ListOfCoordSeq(<<p, <<0, 0>>, q>>)).val : p \in Pts, q \in Pts}

Rings ==
    {ListOfCoordSeq(t) :
        t \in {u \in Pts \X Pts \X Pts : u[1] # u[2] /\ u[2] # u[3] /\ u[1] # u[3]}}

HoleLists == {List(h) : h \in SeqsUpTo({RingA, RingB}, MaxHoles)}

Polygons == {Polygon(shell, holes).val : shell \in Rings, holes \in HoleLists}

MultiPoints ==
    {MultiPoint(ListOfCoordSeq(ps)).val : ps \in SeqsUpTo(Pts, MaxParts) \ {<<>>}}

MultiLineStrings ==
    {MultiLineString(List(ls)).val :
        ls \in SeqsUpTo({RingA, ListOfCoordSeq(<<<<0, 0>>, <<1, 1>>>>)}, MaxParts)
                \ {<<>>}}

MultiPolygons ==
    {MultiPolygon(List(ps), "geojson").val :
        ps \in SeqsUpTo({List(<<RingA>>), List(<<RingA, RingB>>)}, MaxParts) \ {<<>>}}

SamplePoint == Point(ListOfCoord(<<0, 1>>)).val
SamplePolygon == Polygon(RingA, List(<<RingB>>)).val
InnerCollection == GeometryCollection(<<SamplePoint>>).val

MemberGeometries ==
    {SamplePoint, SamplePolygon, EmptyGeom(PointName),
     LineString(ListOfCoordSeq(<<<<0, 0>>, <<1, 1>>>>)).val,
     MultiPoint(ListOfCoordSeq(<<<<1, 0>>>>)).val,
     InnerCollection,
     GeometryCollection(<<InnerCollection, SamplePolygon>>).val}

GeometryCollections ==
    {GeometryCollection(gs).val : gs \in SeqsUpTo(MemberGeometries, MaxParts)}

Geometries ==
    Points \cup LineStrings \cup Polygons \cup MultiPoints \cup MultiLineStrings
        \cup MultiPolygons \cup GeometryCollections

\* entries of 'geometries': dicts that build, dicts that raise, a geometry object
PointDict == Dict(Str(PointName), ListOfCoord(<<0, 1>>))
CircleDict == Dict(Str(UpperAt(circle, {1})), ListOfCoord(<<0, 1>>))

MemberDicts ==
    {PointDict,
     Dict(Str(polygon), List(<<RingA, RingB>>)),
     Dict(Str(Upper(point)), List(<<>>)),
     CircleDict,
     DictNoType(ListOfCoord(<<0, 1>>)),
     DictNoCoordinates(Str(linestring)),
     [type |-> Str(GeometryCollectionName), geometries |-> List(<<PointDict>>)],
     [type |-> Str(GeometryCollectionName),
      geometries |-> List(<<PointDict, CircleDict>>)],
     SamplePolygon}

CollectionDicts ==
    UNION {{[type |-> Str(n), geometries |-> List(gs)],
            [type |-> Str(n), geometries |-> List(gs), coordinates |-> List(<<>>)],
            [type |-> Str(n), geometries |-> List(gs),
             coordinates |-> ListOfCoord(<<0, 1>>)]}
              : n \in {geometrycollection, GeometryCollectionName},
                gs \in SeqsUpTo(MemberDicts, MaxParts)}
        \cup {[type |-> Str(GeometryCollectionName), geometries |-> None]}

\* what a caller hands to shape without going through mapping
Contexts ==
    TypedDicts \cup UntypedDicts \cup CollectionDicts
        \cup {SamplePoint, SamplePolygon, InnerCollection, EmptyGeom(PolygonName)}

\* generic coordinate trees
Leaves == {None, PyInt(0)}
Level1 == Leaves \cup {List(s) : s \in SeqsUpTo(Leaves, MaxParts)}
Level2 == SeqsUpTo(Level1, MaxParts)

Trees ==
    Leaves \cup {Str(<<>>), Str(<<"a">>), PyFloat(1)}
        \cup {List(s) : s \in Level2}
        \cup {Tuple(s) : s \in Level2}
        \cup {NdArray(s) : s \in Level2}

----------------------------------------------------------------------------
(* The callers.  The functions keep no state between calls, so a behaviour  *)
(* is one call of a helper, or one object prepared for shape, handed to it, *)
(* and changed by the caller afterwards.                                     *)

NoOutcome == [st |-> "none"]

Init ==
    /\ _has_numpy \in BOOLEAN
    /\ op = "init"
    /\ arg = None
    /\ context = None
    /\ source = None
    /\ out = NoOutcome

\* _is_coordinates_empty(tree)
CallIsCoordinatesEmpty ==
    /\ op = "init"
    /\ \E tree \in Trees :
        /\ IsNdArray(tree) => _has_numpy
        /\ op' = "_is_coordinates_empty"
        /\ arg' = tree
        /\ out' = Return(_is_coordinates_empty(tree))
        /\ context' = None
        /\ source' = None
        /\ UNCHANGED _has_numpy

\* _empty_shape_for_no_coordinates(name)
CallEmptyShape ==
    /\ op = "init"
    /\ \E name \in Names :
        /\ op' = "_empty_shape_for_no_coordinates"
        /\ arg' = Str(name)
        /\ out' = _empty_shape_for_no_coordinates(name)
        /\ context' = None
        /\ source' = None
        /\ UNCHANGED _has_numpy

\* box(minx, miny, maxx, maxy, ccw)
CallBox ==
    /\ op = "init"
    /\ \E minx \in Coords, miny \in Coords, maxx \in Coords, maxy \in Coords,
          ccw \in BOOLEAN :
        /\ op' = "box"
        /\ arg' = [minx |-> minx, miny |-> miny, maxx |-> maxx, maxy |-> maxy,
                   ccw |-> ccw,
                   coords |-> box_coords(minx, miny, maxx, maxy, ccw)]
        /\ out' = box(minx, miny, maxx, maxy, ccw)
        /\ context' = None
        /\ source' = None
        /\ UNCHANGED _has_numpy

\* the caller builds a dict, or takes a geometry, to hand to shape
NewContext ==
    /\ op = "init"
    /\ \E x \in Contexts :
        /\ op' = "new"
        /\ context' = x
        /\ source' = None
        /\ arg' = None
        /\ out' = NoOutcome
        /\ UNCHANGED _has_numpy

\* mapping(g)
CallMapping ==
    /\ op = "init"
    /\ \E g \in Geometries :
        /\ op' = "mapping"
        /\ source' = g
        /\ context' = mapping(g)
        /\ arg' = None
        /\ out' = NoOutcome
        /\ UNCHANGED _has_numpy

\* shape(context)
CallShape ==
    /\ op \in {"new", "mapping", "mutate"}
    /\ op' = "shape"
    /\ out' = shape(context)
    /\ UNCHANGED <<_has_numpy, arg, context, source>>

\* del context[key], context['coordinates'].clear() and .reverse(),
\* context['geometries'].clear()
Mutated(ctx) ==
    {[k \in DOMAIN ctx \ {key} |-> ctx[k]] : key \in DOMAIN ctx}
        \cup (IF "coordinates" \in DOMAIN ctx /\ ctx.coordinates.t = "seq"
                  /\ ctx.coordinates.c = "list"
              THEN {[ctx EXCEPT !.coordinates.items = <<>>],
                    [ctx EXCEPT !.coordinates.items = Reverse(@)]}
              ELSE {})
        \cup (IF "geometries" \in DOMAIN ctx /\ ctx.geometries.t = "seq"
              THEN {[ctx EXCEPT !.geometries.items = <<>>]}
              ELSE {})

\* the caller changes the dict it handed to shape
Mutate ==
    /\ op \in {"shape", "mutate"}
    /\ ~HasGeoInterface(context)
    /\ \E x \in Mutated(context) :
        /\ x # context
        /\ context' = x
    /\ op' = "mutate"
    /\ source' = None
    /\ UNCHANGED <<_has_numpy, arg, out>>

Next ==
    \/ CallIsCoordinatesEmpty
    \/ CallEmptyShape
    \/ CallBox
    \/ NewContext
    \/ CallMapping
    \/ CallShape
    \/ Mutate

Spec == Init /\ [][Next]_vars

----------------------------------------------------------------------------
(* Properties *)

\* t spells kind name k, letter case aside
SameIgnoringCase(t, k) ==
    /\ Len(t) = Len(k)
    /\ \A i \in DOMAIN k : t[i] = k[i] \/ t[i] = UpperChar(k[i])

Recognized(t) == \E k \in KindNames : SameIgnoringCase(t, k)

\* the context is a dict whose 'type' is a string
IsTypedDict(x) == ~HasGeoInterface(x) /\ "type" \in DOMAIN x /\ x.type.t = "str"

\* C1: for each of the seven lower-case kind names k,
\* _empty_shape_for_no_coordinates(k) returns, without raising, a geometry of
\* kind k whose coordinate sequence is empty.
C1_EmptyShapeOfEveryKind ==
    (op = "_empty_shape_for_no_coordinates" /\ arg.chars \in KindNames)
        => /\ Returned(out)
           /\ Lower(out.val.kind) = arg.chars
           /\ IsEmptyGeom(out.val)

\* C2 as stated: for every string s that is no spelling of a kind name,
\* _empty_shape_for_no_coordinates(s) and shape({type: s, coordinates: c})
\* raise ValueError with a message that carries s in its original letter case.
C2_MessageCarriesTypeVerbatim ==
    /\ (op = "_empty_shape_for_no_coordinates" /\ ~Recognized(arg.chars))
           => out = Raise("ValueError", (UnknownPrefix \o arg.chars))
    /\ (op = "shape" /\ IsTypedDict(context) /\ "coordinates" \in DOMAIN context
            /\ ~Recognized(context.type.chars))
           => Plain(out) = Raise("ValueError", (UnknownPrefix \o context.type.chars))

\* C2 amended: for every string s that is no spelling of a kind name, both
\* calls raise ValueError; the message of _empty_shape_for_no_coordinates(s)
\* carries s as given, the message of shape({type: s, coordinates: c}) carries
\* s in lower case.
C2_UnknownTypeRaises ==
    /\ (op = "_empty_shape_for_no_coordinates" /\ ~Recognized(arg.chars))
           => out = Raise("ValueError", (UnknownPrefix \o arg.chars))
    /\ (op = "shape" /\ IsTypedDict(context) /\ "coordinates" \in DOMAIN context
            /\ ~Recognized(context.type.chars))
           => Plain(out) = Raise("ValueError",
                                 (UnknownPrefix \o Lower(context.type.chars)))

C2_Witness ==
    /\ op = "shape"
    /\ IsTypedDict(context)
    /\ "coordinates" \in DOMAIN context
    /\ ~_is_coordinates_empty(context.coordinates)
    /\ ~Recognized(context.type.chars)
    /\ context.type.chars # Lower(context.type.chars)
    /\ RaisedKind(out, "ValueError")

\* C5: _is_coordinates_empty returns a boolean for every tree: TRUE for None
\* and for a sequence of length zero; for a longer sequence, TRUE exactly when
\* every element is empty; FALSE for a scalar.
C5_IsCoordinatesEmpty ==
    op = "_is_coordinates_empty"
        => /\ Returned(out)
           /\ out.val \in BOOLEAN
           /\ IsNone(arg) => out.val
           /\ (arg.t = "seq" /\ Len(arg.items) = 0) => out.val
           /\ (arg.t = "seq" /\ Len(arg.items) > 0)
                  => (out.val <=> \A i \in DOMAIN arg.items :
                                      _is_coordinates_empty(arg.items[i]))
           /\ arg.t \in {"num", "str"} => ~out.val

C5_Witness ==
    /\ op = "_is_coordinates_empty"
    /\ arg.t = "seq"
    /\ Len(arg.items) = 2
    /\ arg.items[1] = List(<<>>)
    /\ arg.items[2] = List(<<None, PyInt(0)>>)
    /\ out = Return(FALSE)

\* C6: for all bounds, inverted or degenerate ones included, box hands the
\* Polygon constructor the ring (maxx,miny), (maxx,maxy), (minx,maxy),
\* (minx,miny) when ccw, and that sequence reversed when not ccw.
C6_BoxRing ==
    op = "box"
        => LET ring == <<<<arg.maxx, arg.miny>>, <<arg.maxx, arg.maxy>>,
                         <<arg.minx, arg.maxy>>, <<arg.minx, arg.miny>>>>
               back == <<<<arg.minx, arg.miny>>, <<arg.minx, arg.maxy>>,
                         <<arg.maxx, arg.maxy>>, <<arg.maxx, arg.miny>>>>
           IN  /\ arg.coords = IF arg.ccw THEN ring ELSE back
               /\ out = Polygon(ListOfCoords(IF arg.ccw THEN ring ELSE back), None)

C6_Witness ==
    /\ op = "box"
    /\ ~arg.ccw
    /\ arg.minx > arg.maxx
    /\ arg.miny < arg.maxy
    /\ Returned(out)

\* C3: for every non-empty geometry g of the seven kinds, shape(mapping(g))
\* returns a geometry equal to g: same kind, same coordinates, same members
\* in the same order.
C3_RoundTrip ==
    (op = "shape" /\ source # None /\ ~IsEmptyGeom(source))
        => Plain(out) = Return(source)

C3_Witness ==
    /\ op = "shape"
    /\ source # None
    /\ source.kind = MultiPolygonName
    /\ Len(source.geoms) = 2
    /\ \E i \in DOMAIN source.geoms : source.geoms[i].interiors # <<>>
    /\ Plain(out) = Return(source)

\* C4 as stated: shape and _empty_shape_for_no_coordinates both give, for
\* every spelling t of a kind name, the outcome they give for the lower-case
\* name.
C4_CaseInsensitiveEverywhere ==
    /\ (op = "shape" /\ IsTypedDict(context))
           => \A k \in KindNames :
                  SameIgnoringCase(context.type.chars, k)
                      => out = shape([context EXCEPT !.type = Str(k)])
    /\ op = "_empty_shape_for_no_coordinates"
           => \A k \in KindNames :
                  SameIgnoringCase(arg.chars, k)
                      => out = _empty_shape_for_no_coordinates(k)

\* C4 amended: shape gives, for every spelling t of a kind name, the outcome
\* it gives for the lower-case name; _empty_shape_for_no_coordinates compares
\* the name as given and raises ValueError, naming t, for a spelling that is
\* not all lower case.
C4_ShapeIgnoresCase ==
    /\ (op = "shape" /\ IsTypedDict(context))
           => \A k \in KindNames :
                  SameIgnoringCase(context.type.chars, k)
                      => out = shape([context EXCEPT !.type = Str(k)])
    /\ op = "_empty_shape_for_no_coordinates"
           => \A k \in KindNames :
                  (SameIgnoringCase(arg.chars, k) /\ arg.chars # k)
                      => out = Raise("ValueError", (UnknownPrefix \o arg.chars))

C4_Witness ==
    /\ op = "shape"
    /\ IsTypedDict(context)
    /\ context.type.chars = Upper(multilinestring)
    /\ Returned(out)
    /\ ~IsEmptyGeom(out.val)

C8_Collection ==
    (/\ op = "shape"
     /\ IsTypedDict(context)
     /\ SameIgnoringCase(context.type.chars, geometrycollection)
     /\ ~("coordinates" \in DOMAIN context
              /\ _is_coordinates_empty(context.coordinates))
     /\ "geometries" \in DOMAIN context => context.geometries.t = "seq")
        => LET gs == IF "geometries" \in DOMAIN context
                     THEN context.geometries.items
                     ELSE <<>>
               outs == [i \in DOMAIN gs |-> shape(gs[i])]
           IN  IF \A i \in DOMAIN gs : Returned(outs[i])
               THEN /\ Returned(out)
                    /\ out.val.kind = GeometryCollectionName
                    /\ Len(out.val.geoms) = Len(gs)
                    /\ \A i \in DOMAIN gs : out.val.geoms[i] = outs[i].val
               ELSE /\ Raised(out)
                    /\ \E i \in DOMAIN gs :
                           /\ Raised(outs[i])
                           /\ \A j \in 1..(i - 1) : Returned(outs[j])
                           /\ Plain(out) = Plain(outs[i])

C8_Witness ==
    /\ op = "shape"
    /\ IsTypedDict(context)
    /\ "geometries" \in DOMAIN context
    /\ "coordinates" \notin DOMAIN context
    /\ context.geometries.t = "seq"
    /\ Len(context.geometries.items) = 2
    /\ \A i \in 1..2 : IsTypedDict(context.geometries.items[i])
    /\ context.geometries.items[1].type = Str(polygon)
    /\ context.geometries.items[2].type = Str(GeometryCollectionName)
    /\ Returned(out)
    /\ Len(out.val.geoms) = 2
    /\ out.val.geoms[1].kind = PolygonName
    /\ out.val.geoms[2].geoms = <<SamplePoint>>

\* C9: for every dict, one without 'type' or without 'coordinates' included,
\* shape returns a geometry or raises the unknown-geometry-type ValueError;
\* its own dispatch raises nothing else (the constructors may).
C9_OnlyUnknownGeometryType ==
    (op = "shape" /\ ~HasGeoInterface(context))
        => \/ Returned(out)
           \/ RaisedKind(out, "ConstructorError")
           \/ /\ RaisedKind(out, "ValueError")
              /\ SubSeq(out.msg, 1, Len(UnknownPrefix)) = UnknownPrefix

\* C10: when the dict has a 'coordinates' key whose value is empty, the
\* outcome of shape is the outcome of _empty_shape_for_no_coordinates for the
\* lower-cased type, whatever the other keys; when the key is absent or its
\* value is not empty, that helper is not used and the branch of the type
\* decides (polygon: exterior coordinates[0], interiors coordinates[1:]).
C10_EmptyShortCircuit ==
    (op = "shape" /\ IsTypedDict(context))
        => IF "coordinates" \in DOMAIN context
               /\ _is_coordinates_empty(context.coordinates)
           THEN /\ out.via = "empty"
                /\ Plain(out) =
                       _empty_shape_for_no_coordinates(Lower(context.type.chars))
           ELSE /\ out.via = BranchOf(Lower(context.type.chars))
                /\ (/\ out.via = "polygon"
                    /\ "coordinates" \in DOMAIN context
                    /\ context.coordinates.t = "seq")
                       => Plain(out) =
                              Polygon(context.coordinates.items[1],
                                      [context.coordinates EXCEPT
                                          !.items = Tail(@)])

C10_Witness ==
    /\ op = "shape"
    /\ IsTypedDict(context)
    /\ "geometries" \in DOMAIN context
    /\ "coordinates" \in DOMAIN context
    /\ Len(context.geometries.items) = 1
    /\ context.coordinates = List(<<>>)
    /\ out.via = "empty"
    /\ RaisedKind(out, "ValueError")

====
